---- MODULE Spec2Model ----
(***************************************************************************)
(* EngineIQ query orchestration: the LangGraph pipeline of                 *)
(* backend/agents/graph.py, its node handlers (backend/agents/nodes.py)    *)
(* and the session state of backend/agents/state.py (Spec, SpecFilter);    *)
(* the knowledge-gap ledger of backend/services/qdrant_service.py          *)
(* (SpecGap) and the expertise ledger of backend/connectors and            *)
(* qdrant_service.py (SpecExpertise); the permission filter on a malformed *)
(* payload (SpecFailOpen), the session under the runtime's scheduling      *)
(* (SpecLive), and LRUCache, RateLimiter and _retry_with_backoff of        *)
(* backend/services/gemini_service.py (SpecCache, SpecLimiter, SpecRetry). *)
(*                                                                         *)
(* One session (one thread_id of the in-memory checkpointer) is modelled.  *)
(* graph.invoke(input) with a non-None input starts at the entry point     *)
(* and executes one node per superstep along the declared edges until END  *)
(* or until the recursion limit is exhausted (GraphRecursionError).  No    *)
(* interrupt is declared when the graph is compiled, so no node pauses.    *)
(*                                                                         *)
(* The checkpointer keeps the channel values after every superstep, so     *)
(* get_state returns the state the last executed node produced, also after *)
(* an invoke that raised.  The session is opened by execute_query with a   *)
(* thread_id; a resume on a thread that never ran is not modelled.         *)
(*                                                                         *)
(* Abstractions: scores are tenths (0.4 is 4); an Optional list that is    *)
(* None is the empty sequence (every reader in nodes.py treats both the    *)
(* same way); str(uuid4()) and int(time.time()) are the operation counter; *)
(* the knowledge base answers the session's query with the same points     *)
(* each time, unless the search call fails.                                *)
(***************************************************************************)
EXTENDS Integers, Sequences, FiniteSets, TLC

VARIABLES
    kb,             \* what the knowledge_base collection returns for the query
    requester,      \* the arguments the client passes to execute_query
    st,             \* AgentState: the channel values of the thread
    next,           \* node the running invoke executes next, or "idle"
    steps,          \* supersteps used by the running invoke
    call,           \* frame of the running / last operation
    outcome,        \* how the last invoke on the thread finished
    ret,            \* what the last operation handed back to its caller
    conversations,  \* index_document writes to the conversations collection
    ops,            \* operations started so far (also the clock)
    faults,         \* collaborator failures injected so far
    convs,          \* conversations collection: the points similar to the query
    gaps,           \* knowledge_gaps collection, by point id
    hash,           \* hash(query_text) as each worker's interpreter computes it
    task,           \* each worker's position in log_conversation and its locals
    credited,       \* users whose call wrote a gap record, by point id
    emap,           \* expertise_map collection, by point id
    today,          \* the date, in days
    appended,       \* users whose evidence the last update_expertise_map wrote
    ranked,         \* what the last get_expertise_data returned
    cache,          \* GeminiService.cache, an LRUCache
    rate_limiter,   \* GeminiService.rate_limiter, a RateLimiter
    clock,          \* time.time(), in seconds
    audit,          \* the last call on the cache or the limiter, and what it found
    retry           \* the position and locals of _retry_with_backoff

session == <<kb, requester, st, next, steps, call, outcome, ret, conversations>>

ledger == <<convs, gaps, hash, task, credited>>

expertise == <<emap, today, appended, ranked>>

gemini == <<cache, rate_limiter, clock, audit, retry>>

vars == <<kb, requester, st, next, steps, call, outcome, ret, conversations, ops,
          faults, convs, gaps, hash, task, credited, emap, today, appended, ranked,
          cache, rate_limiter, clock, audit, retry>>

\* ---------------------------------------------------------------- bounds
MaxResults == 2       \* length of the list hybrid_search returns
MaxCandidates == 2    \* length of the candidate list in SpecFilter
MaxOps == 3           \* operations (calls of the public functions) per behaviour
MaxFaults == 1        \* collaborator failures per behaviour
MaxGapId == 1         \* point ids 0..MaxGapId stand for gap_<hash modulo 10**9>
MaxMonths == 3        \* months that pass in a behaviour of SpecExpertise

\* ------------------------------------------------------------- constants
RecursionLimit == 25
TopK == 20
CitationK == 10
GapScoreFloor == 4

\* ------------------------------------------------------ generic helpers
Range(s) == {s[i] : i \in 1..Len(s)}

Min(a, b) == IF a < b THEN a ELSE b

Take(s, n) == SubSeq(s, 1, Min(n, Len(s)))

RECURSIVE SumScores(_)
SumScores(s) == IF s = <<>> THEN 0 ELSE Head(s).score + SumScores(Tail(s))

RECURSIVE Count(_, _)
Count(s, x) == IF s = <<>> THEN 0
               ELSE (IF Head(s) = x THEN 1 ELSE 0) + Count(Tail(s), x)

\* -------------------------------------------------------------- state.py
None == "None"

CreateInitialState(u, t) ==
    [ user_id |-> u.user_id, user_teams |-> u.user_teams,
      user_location |-> u.user_location, user_type |-> u.user_type,
      intent |-> None, query_embedding |-> None,
      search_results |-> <<>>, search_count |-> 0,
      filtered_results |-> <<>>, sensitive_results |-> <<>>, filtered_count |-> 0,
      approval_required |-> FALSE, approval_status |-> "not_required",
      approval_reason |-> 0, approver_id |-> None, approval_timestamp |-> 0,
      final_results |-> <<>>, final_count |-> 0,
      response |-> None, citations |-> <<>>, related_queries |-> <<>>,
      knowledge_gap_detected |-> FALSE, gap_reason |-> None,
      gap_suggestion |-> None,
      gap_approval_required |-> FALSE, gap_approval_status |-> "not_required",
      conversation_id |-> t, feedback_saved |-> FALSE,
      start_timestamp |-> t, end_timestamp |-> 0,
      errors |-> <<>>, current_node |-> None, execution_path |-> <<>> ]

\* a handler that sets current_node but does not append to execution_path
EnterUnrecorded(s, n) == [s EXCEPT !.current_node = n]

Enter(s, n) == [s EXCEPT !.current_node = n, !.execution_path = Append(@, n)]

Fail(s, n) == [s EXCEPT !.errors = Append(@, n)]

\* ------------------------------------------------------ search candidates
\* A scored point of the knowledge_base collection: its id, its score and
\* the permissions entry of its payload (config/qdrant_config.py schema).
\* wellformed = FALSE is a payload whose permissions entry is not a mapping.
Descriptor(id, sc, sens, off, tp, us, ts) ==
    [ id |-> id, score |-> sc, wellformed |-> TRUE, sensitivity |-> sens,
      offshore_restricted |-> off, third_party_restricted |-> tp,
      users |-> us, teams |-> ts ]

Requesters ==
    [ user_id : {"alice"}, user_teams : {{"eng"}},
      user_location : {"US", "offshore"},
      user_type : {"employee", "contractor", "third_party"} ]

\* ------------------------------------------------- nodes.py: the handlers
\* Node 1 (nodes.py 49-91)
query_understanding(s, fail) ==
    LET e == Enter(s, "query_understanding")
    IN  IF fail THEN [Fail(e, "query_understanding") EXCEPT !.intent = "search"]
        ELSE [e EXCEPT !.intent = "question"]

\* Node 2 (nodes.py 95-128)
embedding_generation(s, fail) ==
    LET e == Enter(s, "embedding_generation")
    IN  IF fail THEN [Fail(e, "embedding_generation") EXCEPT !.query_embedding = "zeros"]
        ELSE [e EXCEPT !.query_embedding = "vector"]

\* Node 3 (nodes.py 132-181); found is what QdrantService.hybrid_search returns
hybrid_search(s, found, fail) ==
    LET e == Enter(s, "hybrid_search")
    IN  IF fail
        THEN [Fail(e, "hybrid_search") EXCEPT !.search_results = <<>>, !.search_count = 0]
        ELSE [e EXCEPT !.search_results = found, !.search_count = Len(found)]

\* nodes.py 248-251
HasAccess(c, s) ==
    \/ s.user_id \in c.users
    \/ \E team \in c.teams : team \in s.user_teams

\* Classify with the allow-list consulted before the two restriction checks
ClassifyAllowListFirst(c, s) ==
    IF HasAccess(c, s) THEN "accessible"
    ELSE IF c.offshore_restricted /\ s.user_location # "US" THEN "offshore_restricted"
    ELSE IF c.third_party_restricted /\ s.user_type \in {"contractor", "third_party"}
         THEN "third_party_restricted"
    ELSE IF c.sensitivity \in {"confidential", "restricted"} THEN "high_sensitivity"
    ELSE "accessible"

\* The verdict of one pass of the loop body (nodes.py 214-262):
\* the reason the candidate is recorded with, or "accessible".
Classify(c, s) ==
    IF c.offshore_restricted /\ s.user_location # "US" THEN "offshore_restricted"
    ELSE IF c.third_party_restricted /\ s.user_type \in {"contractor", "third_party"}
         THEN "third_party_restricted"
    ELSE IF c.sensitivity \in {"confidential", "restricted"} /\ ~HasAccess(c, s)
         THEN "high_sensitivity"
    ELSE "accessible"

RECURSIVE FilterLoopNoContinue(_, _, _, _)
\* FilterLoop without the continue that ends the high_sensitivity branch
FilterLoopNoContinue(results, s, filtered, sensitive) ==
    IF results = <<>> THEN [filtered |-> filtered, sensitive |-> sensitive]
    ELSE LET c == Head(results)
             v == Classify(c, s)
         IN  IF v = "accessible"
             THEN FilterLoopNoContinue(Tail(results), s, Append(filtered, c), sensitive)
             ELSE FilterLoopNoContinue(Tail(results), s,
                    IF v = "high_sensitivity" THEN Append(filtered, c) ELSE filtered,
                    Append(sensitive, [result |-> c, reason |-> v,
                                       sensitivity |-> c.sensitivity]))

RECURSIVE FilterLoop(_, _, _, _)
\* the for loop of nodes.py 214-262 over the remaining results
FilterLoop(results, s, filtered, sensitive) ==
    IF results = <<>> THEN [filtered |-> filtered, sensitive |-> sensitive]
    ELSE LET c == Head(results)
             v == Classify(c, s)
         IN  IF v = "accessible"
             THEN FilterLoop(Tail(results), s, Append(filtered, c), sensitive)
             ELSE FilterLoop(Tail(results), s, filtered,
                    Append(sensitive, [result |-> c, reason |-> v,
                                       sensitivity |-> c.sensitivity]))

\* the approval fields permission_filter assigns (nodes.py 268-276)
\* when only the branch that finds sensitive results assigns them
ApprovalFieldsNoElse(e, sensitive) ==
    IF sensitive # <<>>
    THEN [e EXCEPT !.approval_required = TRUE,
                   !.approval_status = "pending",
                   !.approval_reason = Len(sensitive)]
    ELSE e

\* the approval fields permission_filter assigns (nodes.py 268-276)
ApprovalFields(e, sensitive) ==
    IF sensitive # <<>>
    THEN [e EXCEPT !.approval_required = TRUE,
                   !.approval_status = "pending",
                   !.approval_reason = Len(sensitive)]
    ELSE [e EXCEPT !.approval_required = FALSE,
                   !.approval_status = "not_required"]

\* Node 4 (nodes.py 185-287)
permission_filter(s) ==
    LET e == Enter(s, "permission_filter")
        r == FilterLoop(e.search_results, e, <<>>, <<>>)
    IN  IF \E i \in 1..Len(e.search_results) : ~e.search_results[i].wellformed
        THEN \* except branch (nodes.py 280-285)
             [Fail(e, "permission_filter") EXCEPT
                !.filtered_results = e.search_results,
                !.sensitive_results = <<>>,
                !.filtered_count = Len(e.search_results)]
        ELSE ApprovalFields([e EXCEPT !.filtered_results = r.filtered,
                                      !.sensitive_results = r.sensitive,
                                      !.filtered_count = Len(r.filtered)],
                            r.sensitive)

RECURSIVE InsertByScore(_, _)
\* insert c behind every element whose score is >= c.score (stable, descending)
InsertByScore(sorted, c) ==
    IF sorted = <<>> THEN <<c>>
    ELSE IF Head(sorted).score >= c.score
         THEN <<Head(sorted)>> \o InsertByScore(Tail(sorted), c)
         ELSE <<c>> \o sorted

RECURSIVE SortByScore(_)
\* sorted(results, key=score, reverse=True) (nodes.py 321-325)
SortByScore(results) ==
    IF results = <<>> THEN <<>>
    ELSE InsertByScore(SortByScore(SubSeq(results, 1, Len(results) - 1)),
                       results[Len(results)])

\* Node 5 (nodes.py 291-341)
rerank_results(s) ==
    LET e == Enter(s, "rerank_results")
        top == Take(SortByScore(e.filtered_results), TopK)
    IN  IF e.filtered_results = <<>>
        THEN [e EXCEPT !.final_results = <<>>, !.final_count = 0]
        ELSE [e EXCEPT !.final_results = top, !.final_count = Len(top)]

\* citations built from results[:10] (nodes.py 377-392)
Citations(results) ==
    [i \in 1..Min(CitationK, Len(results)) |-> [number |-> i, title |-> results[i].id]]

\* Node 6 (nodes.py 345-476); fail is a failed or absent Claude call
response_synthesis(s, fail) ==
    LET e == Enter(s, "response_synthesis")
    IN  IF e.final_results = <<>>
        THEN [e EXCEPT !.response = "no_relevant_information",
                       !.citations = <<>>, !.related_queries = <<>>]
        ELSE IF fail
        THEN [e EXCEPT !.response = "fallback", !.related_queries = <<>>,
                       !.citations = Citations(e.final_results)]
        ELSE [e EXCEPT !.response = "answer", !.related_queries = <<"related">>,
                       !.citations = Citations(e.final_results)]

\* feedback_learning whose failure branch also discards the ranked results
feedback_learningDiscarding(s, now, fail) ==
    LET e == Enter(s, "feedback_learning")
        t == IF e.start_timestamp # 0 /\ e.end_timestamp = 0
             THEN [e EXCEPT !.end_timestamp = now] ELSE e
    IN  IF fail THEN [Fail(t, "feedback_learning") EXCEPT !.feedback_saved = FALSE,
                                                         !.final_results = <<>>]
        ELSE [t EXCEPT !.feedback_saved = TRUE]

\* Node 7 (nodes.py 497-564); now is int(time.time())
feedback_learning(s, now, fail) ==
    LET e == Enter(s, "feedback_learning")
        t == IF e.start_timestamp # 0 /\ e.end_timestamp = 0
             THEN [e EXCEPT !.end_timestamp = now] ELSE e
    IN  IF fail THEN [Fail(t, "feedback_learning") EXCEPT !.feedback_saved = FALSE]
        ELSE [t EXCEPT !.feedback_saved = TRUE]

\* the gap condition knowledge_gap_detection finds in s (nodes.py 597-610)
GapReason(s) ==
    IF s.final_count = 0 THEN "no_results_found"
    ELSE IF s.final_results # <<>>
            /\ SumScores(s.final_results) < GapScoreFloor * Len(s.final_results)
         THEN "low_quality_results"
    ELSE None

\* Node 8 (nodes.py 568-655); fail is an exception raised while the suggestion
\* is built (nodes.py 617-635), after the first two fields were written
knowledge_gap_detection(s, fail) ==
    LET e == Enter(s, "knowledge_gap_detection")
        result_count == e.final_count
        reason == GapReason(e)
    IN  IF fail
        THEN [Fail(e, "knowledge_gap_detection") EXCEPT
                       !.knowledge_gap_detected = FALSE, !.gap_reason = reason]
        ELSE IF reason # None
        THEN [e EXCEPT !.knowledge_gap_detected = TRUE, !.gap_reason = reason,
                       !.gap_suggestion = IF result_count = 0 THEN "high" ELSE "medium",
                       !.gap_approval_required = TRUE,
                       !.gap_approval_status = "pending"]
        ELSE [e EXCEPT !.knowledge_gap_detected = FALSE, !.gap_reason = None,
                       !.gap_approval_required = FALSE,
                       !.gap_approval_status = "not_required"]

\* ------------------------------------------- graph.py: the special nodes
\* graph.py 202-229
wait_for_approval(s) == Enter(s, "wait_for_approval")

\* graph.py 232-255
wait_for_gap_approval(s) == Enter(s, "wait_for_gap_approval")

AccessDenied == "access_denied"

\* graph.py 258-278
approval_rejected(s) ==
    [Enter(s, "approval_rejected") EXCEPT
        !.response = AccessDenied, !.final_results = <<>>,
        !.final_count = 0, !.citations = <<>>]

\* ------------------------------------------------ graph.py: the routing
\* route_after_permission_filter that never routes to the wait
route_always_continue(s) == "continue"

\* graph.py 143-158
route_after_permission_filter(s) ==
    IF s.approval_required /\ s.approval_status = "pending"
    THEN "wait_approval" ELSE "continue"

\* graph.py 161-179
route_after_approval(s) ==
    IF s.approval_status = "approved" THEN "approved"
    ELSE IF s.approval_status = "rejected" THEN "rejected"
    ELSE "pending"

\* graph.py 182-197
route_after_gap_detection(s) ==
    IF s.gap_approval_required /\ s.gap_approval_status = "pending"
    THEN "wait_gap_approval" ELSE "end"

END == "END"

\* the edges declared by create_agent_graph (graph.py 78-126):
\* the node that follows node n once n has produced state s
Edge(n, s) ==
    CASE n = "query_understanding" -> "embedding_generation"
      [] n = "embedding_generation" -> "hybrid_search"
      [] n = "hybrid_search" -> "permission_filter"
      [] n = "permission_filter" ->
            IF route_after_permission_filter(s) = "wait_approval"
            THEN "wait_for_approval" ELSE "rerank_results"
      [] n = "wait_for_approval" ->
            CASE route_after_approval(s) = "approved" -> "rerank_results"
              [] route_after_approval(s) = "rejected" -> "approval_rejected"
              [] OTHER -> "wait_for_approval"
      [] n = "approval_rejected" -> END
      [] n = "rerank_results" -> "response_synthesis"
      [] n = "response_synthesis" -> "feedback_learning"
      [] n = "feedback_learning" -> "knowledge_gap_detection"
      [] n = "knowledge_gap_detection" ->
            IF route_after_gap_detection(s) = "wait_gap_approval"
            THEN "wait_for_gap_approval" ELSE END
      [] n = "wait_for_gap_approval" -> END

\* nodes in which a call can raise: the collaborator calls, and the suggestion
\* built from the collaborator's entities and keywords (nodes.py 628)
Collaborating == {"query_understanding", "embedding_generation", "hybrid_search",
                  "response_synthesis", "feedback_learning",
                  "knowledge_gap_detection"}

\* the handler registered for node n (graph.py 64-76) applied to s
RunNode(n, s, found, now, fail) ==
    CASE n = "query_understanding" -> query_understanding(s, fail)
      [] n = "embedding_generation" -> embedding_generation(s, fail)
      [] n = "hybrid_search" -> hybrid_search(s, found, fail)
      [] n = "permission_filter" -> permission_filter(s)
      [] n = "wait_for_approval" -> wait_for_approval(s)
      [] n = "approval_rejected" -> approval_rejected(s)
      [] n = "rerank_results" -> rerank_results(s)
      [] n = "response_synthesis" -> response_synthesis(s, fail)
      [] n = "feedback_learning" -> feedback_learning(s, now, fail)
      [] n = "knowledge_gap_detection" -> knowledge_gap_detection(s, fail)
      [] n = "wait_for_gap_approval" -> wait_for_gap_approval(s)

\* ------------------------------------------------------ the environment
Approver == "approver"

Decisions == {"approved", "rejected"}

\* documents of the knowledge_base collection that match the query
Corpus ==
    { Descriptor("pub", 8, "public", FALSE, FALSE, {}, {}),
      Descriptor("off", 3, "internal", TRUE, FALSE, {"alice"}, {"eng"}),
      Descriptor("conf", 7, "confidential", FALSE, FALSE, {}, {"ops"}) }

\* the requesters of the modelled session
SessionRequesters == { u \in Requesters : u.user_type = "employee" }

\* the result lists a search can return: up to n distinct points of docs,
\* best score first, as client.search returns them
ResultLists(docs, n) ==
    { r \in UNION { [1..k -> docs] : k \in 0..n } :
        /\ \A i, j \in 1..Len(r) : i # j => r[i].id # r[j].id
        /\ \A i, j \in 1..Len(r) : i < j => r[i].score >= r[j].score }

NoCall == [op |-> None, decision |-> None]

\* ---------------------------------------------- the ledgers' collections
\* the workers (threads or processes) that run log_conversation
Workers == {"w1", "w2"}

\* ids of the points of knowledge_gaps (qdrant_service.py 500)
GapIds == 0..MaxGapId

\* the query text of the cluster of similar conversations
Texts == {"how to rollback a migration"}

\* locals of a worker that is not inside log_conversation
IdleTask ==
    [pc |-> "idle", user |-> 0, text |-> None,
     seen |-> [count |-> 0, sum |-> 0, users |-> {}],
     id |-> 0, existing |-> <<>>, data |-> <<>>,
     kind |-> "none", ret |-> {}, wrote |-> FALSE]

\* the contributors and the content items the connectors index
Contributors == {"ann", "bob"}

Items == {"doc1", "doc2"}

\* ids of the points of expertise_map (base_connector.py 380)
ExpertiseIds == Contributors \X Items

\* empty collections, no worker inside log_conversation
LedgerAtRest ==
    /\ convs = <<>>
    /\ gaps = [i \in GapIds |-> <<>>]
    /\ hash = [w \in Workers |-> [t \in Texts |-> 0]]
    /\ task = [w \in Workers |-> IdleTask]
    /\ credited = [i \in GapIds |-> {}]

ExpertiseAtRest ==
    /\ emap = [k \in ExpertiseIds |-> <<>>]
    /\ today = 0
    /\ appended = {}
    /\ ranked = <<>>

\* an LRUCache and a RateLimiter as constructed, no call of
\* _retry_with_backoff under way
NoAudit == [op |-> None]

IdleRetry ==
    [pc |-> "idle", attempt |-> 0, calls |-> 0, slept |-> <<>>,
     last_exception |-> None, result |-> None, wake |-> 0]

GeminiAtRest ==
    /\ cache = [cache |-> <<>>, timestamps |-> <<>>, max_size |-> 1, ttl_seconds |-> 1]
    /\ rate_limiter = [requests |-> <<>>, max_requests |-> 1, window_seconds |-> 1]
    /\ clock = 0
    /\ audit = NoAudit
    /\ retry = IdleRetry

\* ------------------------------------------------------------ operations
Init ==
    /\ kb \in ResultLists(Corpus, MaxResults)
    /\ requester \in SessionRequesters
    /\ st = CreateInitialState(requester, 0)
    /\ next = "idle"
    /\ steps = 0
    /\ call = [op |-> None, decision |-> None, prev |-> NoCall,
               before |-> CreateInitialState(requester, 0),
               terminal |-> FALSE, written |-> 0]
    /\ outcome = "none"
    /\ ret = [kind |-> "none", state |-> CreateInitialState(requester, 0)]
    /\ conversations = 0
    /\ ops = 0
    /\ faults = 0
    /\ LedgerAtRest
    /\ ExpertiseAtRest
    /\ GeminiAtRest

\* the frame of an operation entered in the current state
Frame(op, decision) ==
    [op |-> op, decision |-> decision,
     prev |-> [op |-> call.op, decision |-> call.decision],
     before |-> st, terminal |-> (outcome = END), written |-> conversations]

\* graph.invoke(input, config) with an input (graph.py 323, 367, 405):
\* the input is written to the channels and the run starts at the entry point
Invoke(input) ==
    /\ st' = input
    /\ next' = "query_understanding"
    /\ steps' = 0
    /\ outcome' = "running"

\* execute_query (graph.py 283-330) up to the call of graph.invoke;
\* the query that opens the session on its thread_id
ExecuteQuery ==
    /\ next = "idle"
    /\ outcome = "none"
    /\ ops < MaxOps
    /\ ops' = ops + 1
    /\ call' = Frame("execute_query", None)
    /\ Invoke(CreateInitialState(requester, ops + 1))
    /\ UNCHANGED <<kb, requester, ret, conversations, faults, ledger, expertise, gemini>>

\* resume_after_approval (graph.py 333-369) up to the call of graph.invoke
ResumeAfterApproval(decision) ==
    /\ next = "idle"
    /\ outcome # "none"
    /\ ops < MaxOps
    /\ ops' = ops + 1
    /\ call' = Frame("resume_after_approval", decision)
    /\ Invoke([st EXCEPT !.approval_status = decision,
                         !.approver_id = Approver,
                         !.approval_timestamp = ops + 1])
    /\ UNCHANGED <<kb, requester, ret, conversations, faults, ledger, expertise, gemini>>

\* resume_after_gap_approval (graph.py 372-407) up to the call of graph.invoke
ResumeAfterGapApproval(decision) ==
    /\ next = "idle"
    /\ outcome # "none"
    /\ ops < MaxOps
    /\ ops' = ops + 1
    /\ call' = Frame("resume_after_gap_approval", decision)
    /\ Invoke([st EXCEPT !.gap_approval_status = decision,
                         !.approver_id = Approver])
    /\ UNCHANGED <<kb, requester, ret, conversations, faults, ledger, expertise, gemini>>

\* may the collaborator call of node n fail in state s
MayFail(n, s) ==
    /\ n \in Collaborating
    /\ faults < MaxFaults
    /\ n = "response_synthesis" => s.final_results # <<>>
    /\ n = "knowledge_gap_detection" => GapReason(s) # None

\* one superstep of the running invoke: the handler of node next runs and the
\* edge out of it is followed; reaching END makes invoke return the state
Step ==
    /\ next # "idle"
    /\ steps < RecursionLimit
    /\ \E fail \in BOOLEAN :
        /\ fail => MayFail(next, st)
        /\ LET s2 == RunNode(next, st, kb, ops, fail)
               nx == Edge(next, s2)
           IN  /\ st' = s2
               /\ steps' = steps + 1
               /\ faults' = IF fail THEN faults + 1 ELSE faults
               /\ conversations' = IF next = "feedback_learning" /\ ~fail
                                   THEN conversations + 1 ELSE conversations
               /\ IF nx = END
                  THEN /\ next' = "idle"
                       /\ outcome' = END
                       /\ ret' = [kind |-> "returned", state |-> s2]
                  ELSE /\ next' = nx
                       /\ UNCHANGED <<outcome, ret>>
    /\ UNCHANGED <<kb, requester, call, ops, ledger, expertise, gemini>>

\* what execute_query returns when graph.invoke raised (graph.py 326-330):
\* initial_state, whose two lists are the objects the handlers appended to
ErrorState(s) ==
    [CreateInitialState(requester, s.conversation_id) EXCEPT
        !.execution_path = s.execution_path,
        !.errors = Append(s.errors, "graph_execution"),
        !.response = "graph_error"]

\* the recursion limit is used up before END: graph.invoke raises
\* GraphRecursionError; execute_query catches it, the resume functions do not
RecursionError ==
    /\ next # "idle"
    /\ steps = RecursionLimit
    /\ next' = "idle"
    /\ outcome' = "GraphRecursionError"
    /\ ret' = IF call.op = "execute_query"
              THEN [kind |-> "returned", state |-> ErrorState(st)]
              ELSE [kind |-> "raised", state |-> st]
    /\ UNCHANGED <<kb, requester, st, steps, call, conversations, ops, faults,
                   ledger, expertise, gemini>>

Next ==
    \/ ExecuteQuery
    \/ \E decision \in Decisions : ResumeAfterApproval(decision)
    \/ \E decision \in Decisions : ResumeAfterGapApproval(decision)
    \/ Step
    \/ RecursionError

Spec == Init /\ [][Next]_vars

\* ------------------------------------------ the permission filter alone
\* permission_filter as a function of its input: every candidate list of up
\* to MaxCandidates descriptors and every requester, in the session state
\* that execute_query has brought to the permission_filter node.
FilterSensitivities == {"public", "confidential", "restricted"}

\* the allow-lists of a payload (users, teams): nobody is granted access,
\* the requester is, or the requester's team is
Grants == { <<{}, {}>>, <<{"alice"}, {}>>, <<{}, {"eng"}>> }

Shapes ==
    { Descriptor(0, 5, sens, off, tp, g[1], g[2]) :
        sens \in FilterSensitivities, off \in BOOLEAN, tp \in BOOLEAN,
        g \in Grants }

\* the list of the descriptors f[1], ..., f[k], the i-th carrying id i
Numbered(f, k) == [i \in 1..k |-> [f[i] EXCEPT !.id = i]]

Searched(u, found) ==
    hybrid_search(
        embedding_generation(
            query_understanding(CreateInitialState(u, 1), FALSE), FALSE),
        found, FALSE)

InitFilter ==
    /\ \E k \in 0..MaxCandidates : \E f \in [1..k -> Shapes] : kb = Numbered(f, k)
    /\ requester \in Requesters
    /\ st = Searched(requester, kb)
    /\ next = "permission_filter"
    /\ steps = 3
    /\ call = [op |-> "execute_query", decision |-> None, prev |-> NoCall,
               before |-> CreateInitialState(requester, 0),
               terminal |-> FALSE, written |-> 0]
    /\ outcome = "running"
    /\ ret = [kind |-> "none", state |-> CreateInitialState(requester, 0)]
    /\ conversations = 0
    /\ ops = 1
    /\ faults = 0
    /\ LedgerAtRest
    /\ ExpertiseAtRest
    /\ GeminiAtRest

FilterStep == next = "permission_filter" /\ Step

SpecFilter == InitFilter /\ [][FilterStep]_vars

\* =====================================================================
\* The knowledge-gap ledger: QdrantService.log_conversation and
\* detect_knowledge_gaps (services/qdrant_service.py).  Every call of the
\* Qdrant client is a step of its own, so that the calls of two workers
\* interleave.  A conversation is kept as its user_id and top_result_score
\* (field score, in tenths); of a gap record the fields the update branch
\* reads or writes are kept, and the timestamps are left out.
\* =====================================================================
GapMinSearchCount == 10
GapMaxAvgScore == 4
GapHighPriorityUserCount == 5
SimilarLimit == 20

\* what detect_knowledge_gaps reads from the points the search returned:
\* len(similar_queries), sum(scores) and the user_ids (qdrant_service.py 494-530)
Summary(points) ==
    [count |-> Len(points), sum |-> SumScores(points),
     users |-> {points[i].user_id : i \in 1..Len(points)}]

\* Qualifies with the count compared strictly
QualifiesAbove(seen) ==
    /\ seen.count > GapMinSearchCount
    /\ seen.sum < GapMaxAvgScore * seen.count

\* the two conditions of qdrant_service.py 494-498; avg_score < 0.4 is
\* sum / count < 4 in tenths
Qualifies(seen) ==
    /\ seen.count >= GapMinSearchCount
    /\ seen.sum < GapMaxAvgScore * seen.count

\* qdrant_service.py 538-542
Priority(n) == IF n > GapHighPriorityUserCount THEN "high" ELSE "medium"

\* the update branch (qdrant_service.py 512-524): the payload of the existing
\* point with the count incremented and the pattern appended; the number of
\* users is computed for the priority only
UpdatedGap(g, user, text) ==
    LET unique_users == Cardinality(g.unique_users \cup {user})
    IN  [g EXCEPT !.query_count = @ + 1,
                  !.query_patterns = Append(@, text),
                  !.priority = IF unique_users > GapHighPriorityUserCount
                               THEN "high" ELSE @]

\* the creation branch (qdrant_service.py 525-548)
NewGap(seen, text) ==
    [topic |-> text, query_patterns |-> <<text>>, query_count |-> seen.count,
     unique_users |-> seen.users, priority |-> Priority(Cardinality(seen.users)),
     status |-> "detected"]

\* gap_data as computed from what retrieve returned (qdrant_service.py 510-548)
GapData(existing, seen, user, text) ==
    IF existing # <<>> THEN UpdatedGap(existing[1], user, text)
    ELSE NewGap(seen, text)

\* log_conversation up to the call of detect_knowledge_gaps
\* (qdrant_service.py 699-737): the conversation is written under a fresh id
LogConversation(w, user, text, score) ==
    /\ task[w].pc = "idle"
    /\ ops < MaxOps
    /\ ops' = ops + 1
    /\ convs' = Append(convs, [user_id |-> user, score |-> score])
    /\ task' = [task EXCEPT ![w] = [IdleTask EXCEPT !.pc = "search", !.user = user,
                                                    !.text = text]]
    /\ UNCHANGED <<gaps, hash, credited, faults, session, expertise, gemini>>

\* detect_knowledge_gaps, the search for similar conversations and the two
\* conditions (qdrant_service.py 485-500).  The search returns at most
\* SimilarLimit of the similar points; which of equally similar points is
\* the store's choice, modelled as a window of the collection.
SearchSimilar(w) ==
    /\ task[w].pc = "search"
    /\ \E fail \in BOOLEAN :
        /\ fail => faults < MaxFaults
        /\ faults' = IF fail THEN faults + 1 ELSE faults
        /\ IF fail
           THEN task' = [task EXCEPT ![w].pc = "idle", ![w].kind = "raised"]
           ELSE \E off \in 0..(Len(convs) - Min(Len(convs), SimilarLimit)) :
                LET seen == Summary(SubSeq(convs, off + 1,
                                           off + Min(Len(convs), SimilarLimit)))
                IN  task' = IF Qualifies(seen)
                            THEN [task EXCEPT ![w].pc = "retrieve", ![w].seen = seen,
                                              ![w].id = hash[w][task[w].text]]
                            ELSE [task EXCEPT ![w].pc = "idle", ![w].seen = seen,
                                              ![w].kind = "returned", ![w].ret = {}]
    /\ UNCHANGED <<convs, gaps, hash, credited, ops, session, expertise, gemini>>

\* the lookup of the existing record, whose failure is taken for "no record",
\* and the computation of gap_data (qdrant_service.py 502-548)
RetrieveGap(w) ==
    /\ task[w].pc = "retrieve"
    /\ \E fail \in BOOLEAN :
        /\ fail => faults < MaxFaults
        /\ faults' = IF fail THEN faults + 1 ELSE faults
        /\ LET existing == IF fail THEN <<>> ELSE gaps[task[w].id]
               data == GapData(existing, task[w].seen, task[w].user, task[w].text)
           IN  task' = [task EXCEPT ![w].pc = "upsert", ![w].existing = existing,
                                    ![w].data = <<data>>]
    /\ UNCHANGED <<convs, gaps, hash, credited, ops, session, expertise, gemini>>

\* the upsert of gap_data and the return of the gap id (qdrant_service.py 550-562)
UpsertGap(w) ==
    /\ task[w].pc = "upsert"
    /\ \E fail \in BOOLEAN :
        /\ fail => faults < MaxFaults
        /\ faults' = IF fail THEN faults + 1 ELSE faults
        /\ IF fail
           THEN /\ task' = [task EXCEPT ![w].pc = "idle", ![w].kind = "raised"]
                /\ UNCHANGED <<gaps, credited>>
           ELSE /\ gaps' = [gaps EXCEPT ![task[w].id] = task[w].data]
                /\ credited' = [credited EXCEPT ![task[w].id] = @ \cup {task[w].user}]
                /\ task' = [task EXCEPT ![w].pc = "idle", ![w].kind = "returned",
                                         ![w].ret = {task[w].id}, ![w].wrote = TRUE]
    /\ UNCHANGED <<convs, hash, ops, session, expertise, gemini>>

\* the conversations the collection holds when the behaviour starts: h
\* similar queries of GapHighPriorityUserCount users in turn, each recorded
\* with a score of GapMaxAvgScore
History(h) ==
    [i \in 1..h |-> [user_id |-> ((i - 1) % GapHighPriorityUserCount) + 1,
                     score |-> GapMaxAvgScore]]

Histories == { History(h) : h \in {GapMinSearchCount - 2, SimilarLimit - 1} }

\* the queries that arrive: a user of the history whose search found nothing
\* (top_result_score 0.0, qdrant_service.py 705) and a new user whose best
\* result scored GapMaxAvgScore
Queries ==
    { [user |-> 1, score |-> 0],
      [user |-> GapHighPriorityUserCount + 1, score |-> GapMaxAvgScore] }

\* no session on the orchestrator
SessionAtRest ==
    /\ kb = <<>>
    /\ requester = CHOOSE u \in SessionRequesters : u.user_location = "US"
    /\ st = CreateInitialState(requester, 0)
    /\ next = "idle"
    /\ steps = 0
    /\ call = [op |-> None, decision |-> None, prev |-> NoCall,
               before |-> CreateInitialState(requester, 0),
               terminal |-> FALSE, written |-> 0]
    /\ outcome = "none"
    /\ ret = [kind |-> "none", state |-> CreateInitialState(requester, 0)]
    /\ conversations = 0

InitGap ==
    /\ SessionAtRest
    /\ ExpertiseAtRest
    /\ GeminiAtRest
    /\ ops = 0
    /\ faults = 0
    /\ convs \in Histories
    /\ gaps = [i \in GapIds |-> <<>>]
    /\ hash \in { h \in [Workers -> [Texts -> GapIds]] :
                     \A t \in Texts : h["w1"][t] = 0 }
    /\ task = [w \in Workers |-> IdleTask]
    /\ credited = [i \in GapIds |-> {}]

NextGap ==
    \/ \E w \in Workers, q \in Queries, text \in Texts :
          LogConversation(w, q.user, text, q.score)
    \/ \E w \in Workers : SearchSimilar(w)
    \/ \E w \in Workers : RetrieveGap(w)
    \/ \E w \in Workers : UpsertGap(w)

SpecGap == InitGap /\ [][NextGap]_vars

\* =====================================================================
\* The expertise ledger: BaseConnector.update_expertise_map
\* (connectors/base_connector.py) and QdrantService.get_expertise_data.
\* Every item is on the topic asked for, and the collection holds fewer
\* than limit * 2 points, so the search returns every point.  Scores are
\* tenths, weighted scores hundredths.
\* =====================================================================
ExpertLimit == 5

\* QdrantConfig.RECENCY_MULTIPLIERS (qdrant_config.py 104-108), in tenths
RecencyBands ==
    << [days |-> 30, multiplier |-> 10],
       [days |-> 90, multiplier |-> 8],
       [days |-> 180, multiplier |-> 5] >>

\* the days between two ticks of the date: one day more than the first band
Month == RecencyBands[1].days + 1

\* calculate_contribution_score of a pull request, open and merged
\* (github_connector.py 607-611), in tenths
ContributionScores == {10, 15}

\* item["contributors"] of an indexed item
ContributorLists == { <<"ann">>, <<"bob">>, <<"ann", "bob">> }

RECURSIVE SeqOf(_)
\* the elements of a finite set in some fixed order
SeqOf(S) ==
    IF S = {} THEN <<>>
    ELSE LET x == CHOOSE y \in S : TRUE IN <<x>> \o SeqOf(S \ {x})

\* the payload update_expertise_map builds for one contributor
\* (base_connector.py 382-401): one evidence entry, stamped modified_at
ExpertisePayload(contributor, score, modified_at) ==
    [user_id |-> contributor, expertise_score |-> score,
     last_contribution |-> modified_at, contribution_count |-> 1]

\* the collection after the loop of update_expertise_map has run for the
\* first upto contributors: each point id <contributor>_<item id> is upserted
\* (base_connector.py 374-408)
Upserted(m, item, contributors, score, modified_at, upto) ==
    [k \in ExpertiseIds |->
        IF k[2] = item /\ \E i \in 1..upto : contributors[i] = k[1]
        THEN <<ExpertisePayload(k[1], score, modified_at)>>
        ELSE m[k]]

RECURSIVE SumOfItems(_, _, _)
\* experts[user_id]["total_score"] += score over the points of the user
\* (qdrant_service.py 442-455)
SumOfItems(m, u, items) ==
    IF items = {} THEN 0
    ELSE LET d == CHOOSE x \in items : TRUE
             here == IF m[<<u, d>>] = <<>> THEN 0
                     ELSE m[<<u, d>>][1].expertise_score
         IN  here + SumOfItems(m, u, items \ {d})

\* the total_score get_expertise_data aggregates for user u
TotalScore(m, u) == SumOfItems(m, u, Items)

\* get_expertise_data (qdrant_service.py 415-464): the experts with a point
\* in the collection, sorted by total_score, at most limit of them
GetExpertiseData(m) ==
    LET found == SelectSeq(SeqOf(Contributors),
                           LAMBDA u : \E d \in Items : m[<<u, d>>] # <<>>)
        experts == [i \in 1..Len(found) |->
                       [user_id |-> found[i], score |-> TotalScore(m, found[i])]]
    IN  Take(SortByScore(experts), ExpertLimit)

\* update_expertise_map for an item modified today; failAt is the contributor
\* at whose index_document call the loop is left through the except
\* (base_connector.py 372-410), 0 if none
UpdateExpertiseMap(item, contributors, score) ==
    /\ ops < MaxOps
    /\ ops' = ops + 1
    /\ \E failAt \in 0..Len(contributors) :
        /\ failAt > 0 => faults < MaxFaults
        /\ faults' = IF failAt > 0 THEN faults + 1 ELSE faults
        /\ LET upto == IF failAt = 0 THEN Len(contributors) ELSE failAt - 1
           IN  /\ emap' = Upserted(emap, item, contributors, score, today, upto)
               /\ appended' = {contributors[i] : i \in 1..upto}
    /\ UNCHANGED <<today, ranked, session, ledger, gemini>>

\* a client asks for the experts of the topic
AskExperts ==
    /\ ranked' = GetExpertiseData(emap)
    /\ UNCHANGED <<emap, today, appended, ops, faults, session, ledger, gemini>>

\* a month passes
Tick ==
    /\ today < MaxMonths * Month
    /\ today' = today + Month
    /\ UNCHANGED <<emap, appended, ranked, ops, faults, session, ledger, gemini>>

InitExpertise ==
    /\ SessionAtRest
    /\ LedgerAtRest
    /\ ExpertiseAtRest
    /\ GeminiAtRest
    /\ ops = 0
    /\ faults = 0

NextExpertise ==
    \/ \E item \in Items, contributors \in ContributorLists,
          score \in ContributionScores :
          UpdateExpertiseMap(item, contributors, score)
    \/ AskExperts
    \/ Tick

SpecExpertise == InitExpertise /\ [][NextExpertise]_vars

\* ================================================================ claims
Executed(n) == n \in Range(st.execution_path)

\* the stages the running / last invoke has executed
StagesOfCall ==
    SubSeq(st.execution_path, Len(call.before.execution_path) + 1,
           Len(st.execution_path))

\* the candidates held in a sensitive_results list
Held(sensitive) == [i \in 1..Len(sensitive) |-> sensitive[i].result]

AfterFilter == st.current_node = "permission_filter"

\* C1: after permission_filter has run, every candidate of search_results is
\* in exactly one of filtered_results and sensitive_results: the two lists
\* are disjoint and together hold exactly the candidates.
C1_Partition ==
    AfterFilter =>
        LET held == Held(st.sensitive_results)
        IN  /\ \A c \in Range(st.search_results) :
                 Count(st.filtered_results, c) + Count(held, c) = 1
            /\ Range(st.filtered_results) \cap Range(held) = {}
            /\ Range(st.filtered_results) \cup Range(held) = Range(st.search_results)
            /\ Len(st.filtered_results) + Len(held) = Len(st.search_results)

C1_Witness ==
    /\ AfterFilter
    /\ Len(st.search_results) = 2
    /\ Len(st.filtered_results) = 1
    /\ Len(st.sensitive_results) = 1

\* C2: once permission_filter has required approval in a session (it then
\* sets approval_reason, which nothing clears), response_synthesis executes
\* only if wait_for_approval was visited earlier in that session.
C2_WaitBeforeSynthesis ==
    (st.current_node = "response_synthesis" /\ st.approval_reason # 0)
        => \E i \in 1..Len(st.execution_path) :
              /\ st.execution_path[i] = "wait_for_approval"
              /\ i < Len(st.execution_path)

C2_Witness ==
    /\ st.current_node = "response_synthesis"
    /\ st.approval_reason # 0
    /\ Executed("wait_for_approval")

\* the session was paused for approval when the running / last call was made
CalledWhileWaiting ==
    /\ call.op = "resume_after_approval"
    /\ call.before.current_node = "wait_for_approval"
    /\ call.before.approval_status = "pending"

\* C3: a session waiting for approval that is resolved as rejected ends in
\* approval_rejected with the fixed access-denied response and empty
\* final_results and citations, and runs no rerank, synthesis, feedback or
\* gap-detection stage after the rejection.
C3_RejectedEnds ==
    (next = "idle" /\ CalledWhileWaiting /\ call.decision = "rejected") =>
        /\ ret.kind = "returned"
        /\ st.current_node = "approval_rejected"
        /\ st.response = AccessDenied
        /\ st.final_results = <<>>
        /\ st.final_count = 0
        /\ st.citations = <<>>
        /\ Range(StagesOfCall) \cap {"rerank_results", "response_synthesis",
               "feedback_learning", "knowledge_gap_detection"} = {}

\* C4: a session waiting for approval that is resumed as approved continues
\* to rerank_results, and the reranked candidates are the accessible ones
\* together with the approved sensitive ones.
C4_ApprovedReranksUnion ==
    (next = "idle" /\ CalledWhileWaiting /\ call.decision = "approved") =>
        /\ "rerank_results" \in Range(StagesOfCall)
        /\ Range(st.final_results) =
              Range(call.before.filtered_results)
                 \cup Range(Held(call.before.sensitive_results))

\* C5: when permission_filter finds a sensitive candidate, execute_query
\* stops at wait_for_approval and returns with approval_status pending and
\* no answer: the wait stage is not executed again and again.
C5_SubmitPauses ==
    (next = "idle" /\ call.op = "execute_query" /\ st.sensitive_results # <<>>) =>
        /\ ret.kind = "returned"
        /\ ret.state.approval_status = "pending"
        /\ ret.state.response = None
        /\ Count(st.execution_path, "wait_for_approval") = 1

\* C6: a resume call on a session whose graph has reached END raises and
\* executes no stage again.
C6_ResumeTerminalRaises ==
    (call.op \in {"resume_after_approval", "resume_after_gap_approval"}
        /\ call.terminal) =>
        /\ next = "idle"
        /\ ret.kind = "raised"
        /\ st = call.before

\* C7: a second resume_after_approval with the same decision leaves the
\* session as the first one left it and writes no conversation record again.
C7_ResumeIdempotent ==
    (next = "idle" /\ call.op = "resume_after_approval"
        /\ call.prev = [op |-> "resume_after_approval", decision |-> call.decision]) =>
        /\ st = call.before
        /\ conversations = call.written

\* C8: at most one suspension is open: approval_status and
\* gap_approval_status are never both pending.
C8_OneSuspension ==
    ~(st.approval_status = "pending" /\ st.gap_approval_status = "pending")

\* the reason the precedence of the permission policy gives candidate c
\* for the requester of session s
C9_Reason(c, s) ==
    CASE c.offshore_restricted /\ s.user_location # "US" -> "offshore_restricted"
      [] ~(c.offshore_restricted /\ s.user_location # "US")
         /\ c.third_party_restricted
         /\ s.user_type \in {"contractor", "third_party"} -> "third_party_restricted"
      [] ~(c.offshore_restricted /\ s.user_location # "US")
         /\ ~(c.third_party_restricted
              /\ s.user_type \in {"contractor", "third_party"})
         /\ c.sensitivity \in {"confidential", "restricted"}
         /\ s.user_id \notin c.users
         /\ c.teams \cap s.user_teams = {} -> "high_sensitivity"
      [] OTHER -> "accessible"

PostHoc == {"feedback_learning", "knowledge_gap_detection", "wait_for_gap_approval"}

\* the answer synthesis left in state s
Answer(s) == <<s.response, s.citations, s.final_results>>

\* C19: a failure of the conversation write in feedback_learning, or inside
\* knowledge_gap_detection, never blocks the answer: the step that records the
\* failure leaves response, citations and final_results as synthesis produced
\* them, the run goes on to the next post-synthesis stage or to END, enough
\* supersteps remain for it to get there, and what is returned at END is
\* that state.
C19_AnalyticsNeverBlock ==
    [][ (next \in PostHoc /\ Len(st'.errors) > Len(st.errors)) =>
            /\ Answer(st') = Answer(st)
            /\ next' \in {"knowledge_gap_detection", "wait_for_gap_approval", "idle"}
            /\ steps' + 2 <= RecursionLimit
            /\ next' = "idle" =>
                   /\ outcome' = END
                   /\ ret' = [kind |-> "returned", state |-> st']
      ]_vars

\* a session that returned an answer with citations although the suggestion
\* of knowledge_gap_detection could not be built
C19_Witness ==
    /\ outcome = END
    /\ ret.kind = "returned"
    /\ "knowledge_gap_detection" \in Range(ret.state.errors)
    /\ ret.state.response = "answer"
    /\ ret.state.citations # <<>>
    /\ ret.state.final_results # <<>>

\* C20: a stage in which a collaborator call fails does not raise but appends
\* an entry to errors (and substitutes a neutral value for its output).
C20_FailureRecorded ==
    [][ faults' > faults => Len(st'.errors) = Len(st.errors) + 1 ]_vars

\* a call of detect_knowledge_gaps that worker w has completed by returning
Returned(w) == task[w].pc = "idle" /\ task[w].kind = "returned"

\* C11: detect_knowledge_gaps returns a gap id, and has written the ledger,
\* exactly when the search found at least GAP_MIN_SEARCH_COUNT similar
\* queries whose mean top_result_score is below GAP_MAX_AVG_SCORE; otherwise
\* it returns None and has written nothing.  A call in which the search or the
\* upsert raised has written nothing either, and only a qualifying call gets
\* as far as the lookup.
C11_GapDecision ==
    \A w \in Workers :
        LET t == task[w]
            enough == t.seen.count >= GapMinSearchCount
            low == t.seen.sum < GapMaxAvgScore * t.seen.count
        IN  /\ Returned(w) =>
                /\ t.ret # {} <=> (enough /\ low)
                /\ t.wrote <=> t.ret # {}
                /\ t.ret # {} => /\ t.ret = {hash[w][t.text]}
                                 /\ gaps[hash[w][t.text]] # <<>>
            /\ t.kind = "raised" => ~t.wrote
            /\ t.pc \in {"retrieve", "upsert"} => (enough /\ low /\ ~t.wrote)

\* one call returned None although enough similar queries were found (their
\* mean is not below the floor), another returned a gap id
C11_Witness ==
    \E w1, w2 \in Workers :
        /\ Returned(w1) /\ task[w1].ret = {}
        /\ task[w1].seen.count >= GapMinSearchCount
        /\ Returned(w2) /\ task[w2].ret # {} /\ task[w2].wrote

\* C12: for a fixed gap key the stored query_count never decreases, whatever
\* detect_knowledge_gaps calls follow, a failing lookup included.
C12_CountMonotone ==
    [][ \A i \in GapIds :
          gaps[i] # <<>> =>
             /\ gaps'[i] # <<>>
             /\ gaps'[i][1].query_count >= gaps[i][1].query_count ]_vars

\* C13: the stored unique_users of a gap holds every user whose query was
\* recorded against it.
C13_UsersRecorded ==
    \A i \in GapIds : gaps[i] # <<>> => credited[i] \subseteq gaps[i][1].unique_users

\* C14: a stored gap record has priority high if its distinct-user count
\* exceeds GAP_HIGH_PRIORITY_USER_COUNT and medium otherwise.
C14_PriorityByUsers ==
    \A i \in GapIds :
        gaps[i] # <<>> =>
            gaps[i][1].priority =
                (IF Cardinality(gaps[i][1].unique_users) > GapHighPriorityUserCount
                 THEN "high" ELSE "medium")

\* C15: two calls with the same query text get the same gap id, in whichever
\* process they run, and no query pattern is held by two gap records.
C15_StableKey ==
    /\ \A w1, w2 \in Workers :
          (Returned(w1) /\ Returned(w2) /\ task[w1].ret # {} /\ task[w2].ret # {}
             /\ task[w1].text = task[w2].text) => task[w1].ret = task[w2].ret
    /\ \A i, j \in GapIds :
          (i # j /\ gaps[i] # <<>> /\ gaps[j] # <<>>) =>
             Range(gaps[i][1].query_patterns) \cap Range(gaps[j][1].query_patterns) = {}

\* C16: when two calls read the same existing gap record and both complete
\* their upsert, the stored query_count is the count they read plus two and
\* both query patterns are stored.
C16_NoLostUpdate ==
    \A w1, w2 \in Workers :
        (/\ w1 # w2
         /\ Returned(w1) /\ task[w1].wrote
         /\ Returned(w2) /\ task[w2].wrote
         /\ task[w1].id = task[w2].id
         /\ task[w1].existing # <<>>
         /\ task[w1].existing = task[w2].existing) =>
            LET before == task[w1].existing[1]
                after == gaps[task[w1].id][1]
            IN  /\ after.query_count = before.query_count + 2
                /\ Len(after.query_patterns) = Len(before.query_patterns) + 2

\* the multiplier of the age band of a contribution that is age days old
RecencyMultiplier(age) ==
    IF age <= RecencyBands[1].days THEN RecencyBands[1].multiplier
    ELSE IF age <= RecencyBands[2].days THEN RecencyBands[2].multiplier
    ELSE RecencyBands[3].multiplier

RECURSIVE WeightedSum(_, _, _, _)
\* the scores of user u, each weighted by the band of its age on day now
WeightedSum(m, u, items, now) ==
    IF items = {} THEN 0
    ELSE LET d == CHOOSE x \in items : TRUE
             p == m[<<u, d>>]
             here == IF p = <<>> THEN 0
                     ELSE p[1].expertise_score
                          * RecencyMultiplier(now - p[1].last_contribution)
         IN  here + WeightedSum(m, u, items \ {d}, now)

\* C17: when update_expertise_map writes new evidence of a user, the
\* total_score get_expertise_data aggregates for that user is strictly
\* greater than before the event.
C17_EvidenceIncreases ==
    [][ ops' # ops =>
          \A u \in appended' : TotalScore(emap', u) > TotalScore(emap, u) ]_vars

\* C18: the ranking weights each contribution by the multiplier of its age
\* band, so the score an expert is ranked with is the weighted sum of the
\* expert's contributions (and never grows as they get older).
C18_RecencyWeighted ==
    [][ ranked' # ranked =>
          \A i \in 1..Len(ranked') :
              ranked'[i].score * RecencyBands[1].multiplier
                  = WeightedSum(emap, ranked'[i].user_id, Items, today) ]_vars

\* ------------------------------------------------- C21..C26: the session
\* the answer fields of state s and the stages that produce them
AnswerFields(s) == <<s.response, s.citations, s.related_queries, s.final_results>>

AnswerStages == {"hybrid_search", "rerank_results", "response_synthesis"}

\* C22: the gap-triage branch never changes the answer: once the session has
\* been through wait_for_gap_approval, a call of resume_after_gap_approval
\* leaves response, citations, related_queries and final_results as they were
\* and executes no search, rerank or synthesis stage again.
C22_GapTriageKeepsAnswer ==
    ( /\ call.op = "resume_after_gap_approval"
      /\ call.before.current_node = "wait_for_gap_approval" ) =>
        /\ AnswerFields(st) = AnswerFields(call.before)
        /\ Range(StagesOfCall) \cap AnswerStages = {}

\* the order of the stages: the pairs of stages that may follow one another
\* in execution_path (wait_for_approval is executed again while pending)
Succession ==
    { <<"query_understanding", "embedding_generation">>,
      <<"embedding_generation", "hybrid_search">>,
      <<"hybrid_search", "permission_filter">>,
      <<"permission_filter", "wait_for_approval">>,
      <<"permission_filter", "rerank_results">>,
      <<"wait_for_approval", "wait_for_approval">>,
      <<"wait_for_approval", "rerank_results">>,
      <<"rerank_results", "response_synthesis">>,
      <<"response_synthesis", "feedback_learning">>,
      <<"feedback_learning", "knowledge_gap_detection">>,
      <<"knowledge_gap_detection", "wait_for_gap_approval">> }

Mandatory ==
    {"query_understanding", "embedding_generation", "hybrid_search",
     "permission_filter", "rerank_results", "response_synthesis",
     "feedback_learning", "knowledge_gap_detection"}

\* C24: in every run execution_path grows by exactly the stages executed,
\* one name per execution; the run starts at query_understanding, every
\* stage follows its predecessor in the fixed order, and a run that reaches
\* END has executed every stage of the order, the two waits excepted.
C24_PathIsExecution ==
    LET p == StagesOfCall
    IN  /\ Len(p) = steps
        /\ SubSeq(st.execution_path, 1, Len(call.before.execution_path))
              = call.before.execution_path
        /\ p # <<>> => /\ p[1] = "query_understanding"
                       /\ p[Len(p)] = st.current_node
        /\ \A i \in 1..(Len(p) - 1) : <<p[i], p[i + 1]>> \in Succession
        /\ next # "idle" /\ p # <<>> => <<p[Len(p)], next>> \in Succession
        /\ outcome = END =>
              /\ Mandatory \subseteq Range(p)
              /\ p[Len(p)] \in {"knowledge_gap_detection", "wait_for_gap_approval"}
              /\ \A n \in Mandatory : Count(p, n) = 1

\* a run that reached END through every stage and the gap wait, and a run
\* that executed wait_for_approval after permission_filter
C24_Witness ==
    /\ outcome = END
    /\ StagesOfCall =
          <<"query_understanding", "embedding_generation", "hybrid_search",
            "permission_filter", "rerank_results", "response_synthesis",
            "feedback_learning", "knowledge_gap_detection",
            "wait_for_gap_approval">>

\* C25: every stage handler is idempotent: the handler of the stage that has
\* just produced the session, invoked again on that session with the same
\* collaborator answers, yields an equal session.
C25_StageIdempotent ==
    (next # "idle" /\ steps > 0) =>
        RunNode(st.current_node, st, kb, ops, FALSE) = st

\* C26: a run that has executed knowledge_gap_detection passed through
\* wait_for_gap_approval exactly when a gap was detected in it, which is
\* exactly when final_count is 0 or the mean score of final_results is below
\* 0.4; the priority of the suggestion is high exactly when there are no
\* results; every other run ends directly after knowledge_gap_detection.
C26_GapRouting ==
    (outcome = END /\ "knowledge_gap_detection" \in Range(StagesOfCall)) =>
        LET waited == "wait_for_gap_approval" \in Range(StagesOfCall)
            low == \/ st.final_count = 0
                   \/ /\ st.final_results # <<>>
                      /\ SumScores(st.final_results)
                            < GapScoreFloor * Len(st.final_results)
        IN  /\ waited <=> st.knowledge_gap_detected
            /\ st.knowledge_gap_detected <=> low
            /\ st.knowledge_gap_detected =>
                  st.gap_suggestion = IF st.final_count = 0 THEN "high" ELSE "medium"
            /\ ~waited => st.current_node = "knowledge_gap_detection"

\* ------------------------------------ C23: the filter on a malformed payload
\* a point whose payload has a permissions entry that is not a mapping:
\* permissions.get raises in the loop body (nodes.py 218-221)
Malformed ==
    [Descriptor("bad", 6, "public", FALSE, FALSE, {}, {}) EXCEPT
        !.wellformed = FALSE]

\* a run that has searched an index holding schema-conforming points and
\* the malformed one, about to execute permission_filter
InitFailOpen ==
    /\ kb \in ResultLists(Corpus \cup {Malformed}, MaxResults)
    /\ requester \in SessionRequesters
    /\ st = Searched(requester, kb)
    /\ next = "permission_filter"
    /\ steps = 3
    /\ call = [op |-> "execute_query", decision |-> None, prev |-> NoCall,
               before |-> CreateInitialState(requester, 0),
               terminal |-> FALSE, written |-> 0]
    /\ outcome = "running"
    /\ ret = [kind |-> "none", state |-> CreateInitialState(requester, 0)]
    /\ conversations = 0
    /\ ops = 1
    /\ faults = 0
    /\ LedgerAtRest
    /\ ExpertiseAtRest
    /\ GeminiAtRest

NextFailOpen ==
    \/ Step
    \/ RecursionError

SpecFailOpen == InitFailOpen /\ [][NextFailOpen]_vars

\* the ids of the points of the index that the rules of permission_filter
\* classify as sensitive for the requester of session s
SensitiveIds(s) ==
    { c.id : c \in { d \in Range(kb) : d.wellformed /\ Classify(d, s) # "accessible" } }

\* C23: while approval_status is not approved, no candidate that the
\* permission rules classify as sensitive for the requester is in
\* final_results or cited, also when permission_filter failed on a
\* malformed candidate.
C23_NoSensitiveUnapproved ==
    st.approval_status # "approved" =>
        /\ \A i \in 1..Len(st.final_results) :
              st.final_results[i].id \notin SensitiveIds(st)
        /\ \A i \in 1..Len(st.citations) :
              st.citations[i].title \notin SensitiveIds(st)

\* ------------------------------------------- C21: the wait for a decision
\* The session under the scheduling of the runtime: graph.invoke executes
\* the supersteps of a started run until END or the recursion limit
\* (graph.py 323, 367, 405); nothing obliges a client or an approver to call.
SpecLive == Init /\ [][Next]_vars /\ WF_vars(Step) /\ WF_vars(RecursionError)

\* the session waits for a decision on its sensitive candidates
AwaitingDecision ==
    /\ Executed("wait_for_approval")
    /\ st.approval_status = "pending"

\* C21: a session that waits in wait_for_approval and receives no decision
\* is eventually rejected (by the approval timeout); it does not remain
\* pending forever.
C21_TimeoutRejects ==
    AwaitingDecision ~>
        (st.approval_status = "rejected" \/ call.op = "resume_after_approval")

\* =====================================================================
\* LRUCache (services/gemini_service.py 56-96).  cache.cache is the
\* OrderedDict as the sequence of its items, oldest first; cache.timestamps
\* is the dict of insertion times.  Each method is one step; the clock
\* advances between calls.
\* =====================================================================
MaxSize == 2
\* the ttl_seconds the cache is constructed with
TtlSeconds == 1
MaxClock == 3

Keys == {"k1", "k2", "k3"}

Values == {"v1", "v2"}

\* the keys of an OrderedDict d
KeysOf(d) == { d[i].key : i \in 1..Len(d) }

\* d[k]
Lookup(d, k) == d[CHOOSE i \in 1..Len(d) : d[i].key = k].value

\* d.pop(k)
Pop(d, k) == SelectSeq(d, LAMBDA e : e.key # k)

\* d.move_to_end(k)
MoveToEnd(d, k) == Append(Pop(d, k), [key |-> k, value |-> Lookup(d, k)])

\* timestamps.pop(k) and timestamps[k] = now
Drop(ts, k) == [x \in (DOMAIN ts) \ {k} |-> ts[x]]

Stamp(ts, k, now) == [x \in (DOMAIN ts) \cup {k} |-> IF x = k THEN now ELSE ts[x]]

\* get that returns the value without move_to_end
getUntouched(self, now, key) ==
    IF key \notin KeysOf(self.cache) THEN [self |-> self, result |-> None]
    ELSE IF now - self.timestamps[key] > self.ttl_seconds
    THEN [self |-> [self EXCEPT !.cache = Pop(@, key),
                                !.timestamps = Drop(@, key)],
          result |-> None]
    ELSE [self |-> self, result |-> Lookup(self.cache, key)]

\* LRUCache.get (gemini_service.py 65-78): the object after the call and
\* the value returned
get(self, now, key) ==
    IF key \notin KeysOf(self.cache) THEN [self |-> self, result |-> None]
    ELSE IF now - self.timestamps[key] > self.ttl_seconds
    THEN [self |-> [self EXCEPT !.cache = Pop(@, key),
                                !.timestamps = Drop(@, key)],
          result |-> None]
    ELSE [self |-> [self EXCEPT !.cache = MoveToEnd(@, key)],
          result |-> Lookup(self.cache, key)]

\* LRUCache.put (gemini_service.py 80-91)
put(self, now, key, value) ==
    IF key \in KeysOf(self.cache)
    THEN [self EXCEPT !.cache = MoveToEnd(@, key),
                      !.timestamps = Stamp(@, key, now)]
    ELSE IF Len(self.cache) >= self.max_size
    THEN LET oldest_key == Head(self.cache).key
         IN  [self EXCEPT
                !.cache = Append(Pop(@, oldest_key), [key |-> key, value |-> value]),
                !.timestamps = Stamp(Drop(@, oldest_key), key, now)]
    ELSE [self EXCEPT !.cache = Append(@, [key |-> key, value |-> value]),
                      !.timestamps = Stamp(@, key, now)]

\* LRUCache.clear (gemini_service.py 93-96)
clear(self) == [self EXCEPT !.cache = <<>>, !.timestamps = <<>>]

\* the keys in the order of their last use (insertion, re-put, successful
\* read), least recent first: k is used now
Touch(recency, k) == Append(SelectSeq(recency, LAMBDA x : x # k), k)

Get(key) ==
    LET r == get(cache, clock, key)
    IN  /\ cache' = r.self
        /\ audit' = [op |-> "get", key |-> key, value |-> None,
                     result |-> r.result, before |-> cache,
                     used |-> audit.recency,
                     recency |-> IF r.result # None THEN Touch(audit.recency, key)
                                 ELSE audit.recency]
        /\ UNCHANGED <<rate_limiter, clock, retry, ops, faults, session, ledger,
                       expertise>>

Put(key, value) ==
    /\ cache' = put(cache, clock, key, value)
    /\ audit' = [op |-> "put", key |-> key, value |-> value, result |-> None,
                 before |-> cache, used |-> audit.recency,
                 recency |-> Touch(audit.recency, key)]
    /\ UNCHANGED <<rate_limiter, clock, retry, ops, faults, session, ledger,
                   expertise>>

Clear ==
    /\ cache' = clear(cache)
    /\ audit' = [op |-> "clear", key |-> None, value |-> None, result |-> None,
                 before |-> cache, used |-> audit.recency,
                 recency |-> <<>>]
    /\ UNCHANGED <<rate_limiter, clock, retry, ops, faults, session, ledger,
                   expertise>>

\* time passes between two calls
Elapse ==
    /\ clock < MaxClock
    /\ clock' = clock + 1
    /\ UNCHANGED <<cache, rate_limiter, audit, retry, ops, faults, session,
                   ledger, expertise>>

InitCache ==
    /\ SessionAtRest
    /\ LedgerAtRest
    /\ ExpertiseAtRest
    /\ ops = 0
    /\ faults = 0
    /\ \E m \in 1..MaxSize :
          cache = [cache |-> <<>>, timestamps |-> <<>>,
                   max_size |-> m, ttl_seconds |-> TtlSeconds]
    /\ rate_limiter = [requests |-> <<>>, max_requests |-> 1, window_seconds |-> 1]
    /\ clock = 0
    /\ audit = [op |-> None, key |-> None, value |-> None, result |-> None,
                before |-> cache, used |-> <<>>, recency |-> <<>>]
    /\ retry = IdleRetry

NextCache ==
    \/ \E key \in Keys : Get(key)
    \/ \E key \in Keys, value \in Values : Put(key, value)
    \/ Clear
    \/ Elapse

SpecCache == InitCache /\ [][NextCache]_vars

\* the least recently used of the keys cached before the audited call
Victim == audit.used[CHOOSE i \in 1..Len(audit.used) :
                        /\ audit.used[i] \in KeysOf(audit.before.cache)
                        /\ \A j \in 1..(i - 1) :
                              audit.used[j] \notin KeysOf(audit.before.cache)]

\* C27: the cache never holds more than max_size entries, cache and
\* timestamps have the same key set, and a put of a new key into a full
\* cache evicts exactly one entry, the least recently used one.
C27_BoundedLru ==
    /\ Len(cache.cache) <= cache.max_size
    /\ DOMAIN cache.timestamps = KeysOf(cache.cache)
    /\ Cardinality(KeysOf(cache.cache)) = Len(cache.cache)
    /\ ( /\ audit.op = "put"
         /\ audit.key \notin KeysOf(audit.before.cache)
         /\ Len(audit.before.cache) = cache.max_size ) =>
            KeysOf(cache.cache) =
               (KeysOf(audit.before.cache) \ {Victim}) \cup {audit.key}

\* a put of a new key into a full cache has evicted a key although a key
\* inserted earlier, and read since, is kept
C27_Witness ==
    /\ audit.op = "put"
    /\ audit.key \notin KeysOf(audit.before.cache)
    /\ Len(audit.before.cache) = cache.max_size
    /\ Len(cache.cache) = cache.max_size
    /\ \E k \in KeysOf(cache.cache) \cap KeysOf(audit.before.cache) :
          audit.before.timestamps[k] < audit.before.timestamps[Victim]

\* C28: get(k) right after put(k, v), within ttl_seconds, returns v, also
\* when k was cached with another value; get returns None for a key that is
\* not cached or whose entry is older than ttl_seconds, and removes the
\* expired entry from cache and timestamps.
C28_GetAfterPut ==
    [][ audit'.op = "get" /\ audit' # audit =>
          LET k == audit'.key
              cached == k \in KeysOf(cache.cache)
              expired == cached /\ clock - cache.timestamps[k] > cache.ttl_seconds
          IN  /\ (audit.op = "put" /\ audit.key = k /\ ~expired) =>
                   audit'.result = audit.value
              /\ ~cached => audit'.result = None
              /\ expired => /\ audit'.result = None
                            /\ k \notin KeysOf(cache'.cache)
                            /\ k \notin DOMAIN cache'.timestamps
      ]_vars

\* =====================================================================
\* RateLimiter (services/gemini_service.py 26-53).  rate_limiter.requests
\* is the list of the times of the granted requests.  One thread calls, as
\* in GeminiService: while it sleeps in wait_if_needed nobody else calls.
\* retry.pc is the caller's position in wait_if_needed; audit.granted is the
\* history of all grants.
\* =====================================================================
MaxRequests == 2

\* the window_seconds the limiter is constructed with
WindowSeconds == 2

\* the time wait_if_needed sleeps between two tries (gemini_service.py 51)
SleepTime == 1

\* acquire that grants while at most max_requests requests are in the window
acquireOneMore(self, now) ==
    LET kept == SelectSeq(self.requests, LAMBDA t : now - t < self.window_seconds)
    IN  IF Len(kept) <= self.max_requests
        THEN [self |-> [self EXCEPT !.requests = Append(kept, now)], result |-> TRUE]
        ELSE [self |-> [self EXCEPT !.requests = kept], result |-> FALSE]

\* RateLimiter.acquire (gemini_service.py 34-46): the object after the call
\* and the value returned
acquire(self, now) ==
    LET kept == SelectSeq(self.requests, LAMBDA t : now - t < self.window_seconds)
    IN  IF Len(kept) < self.max_requests
        THEN [self |-> [self EXCEPT !.requests = Append(kept, now)], result |-> TRUE]
        ELSE [self |-> [self EXCEPT !.requests = kept], result |-> FALSE]

\* a call of acquire by operation op, and its record
Acquired(op) ==
    LET r == acquire(rate_limiter, clock)
    IN  /\ rate_limiter' = r.self
        /\ audit' = [op |-> op, result |-> r.result, at |-> clock,
                     before |-> rate_limiter,
                     granted_before |-> audit.granted,
                     granted |-> IF r.result THEN Append(audit.granted, clock)
                                 ELSE audit.granted]

\* a direct call of acquire
Acquire ==
    /\ retry.pc # "sleep"
    /\ Acquired("acquire")
    /\ retry' = [retry EXCEPT !.pc = "idle"]
    /\ UNCHANGED <<cache, clock, ops, faults, session, ledger, expertise>>

\* one pass of the loop of wait_if_needed (gemini_service.py 48-53): the
\* call returns when acquire succeeded, and sleeps otherwise
WaitIfNeeded ==
    /\ retry.pc = "sleep" => clock >= retry.wake
    /\ Acquired("wait_if_needed")
    /\ retry' = IF audit'.result
                THEN [retry EXCEPT !.pc = "returned"]
                ELSE [retry EXCEPT !.pc = "sleep", !.wake = clock + SleepTime]
    /\ UNCHANGED <<cache, clock, ops, faults, session, ledger, expertise>>

InitLimiter ==
    /\ SessionAtRest
    /\ LedgerAtRest
    /\ ExpertiseAtRest
    /\ ops = 0
    /\ faults = 0
    /\ cache = [cache |-> <<>>, timestamps |-> <<>>, max_size |-> 1, ttl_seconds |-> 1]
    /\ \E m \in 1..MaxRequests :
          rate_limiter = [requests |-> <<>>, max_requests |-> m,
                          window_seconds |-> WindowSeconds]
    /\ clock = 0
    /\ audit = [op |-> None, result |-> FALSE, at |-> 0, before |-> rate_limiter,
                granted_before |-> <<>>, granted |-> <<>>]
    /\ retry = IdleRetry

NextLimiter ==
    \/ Acquire
    \/ WaitIfNeeded
    \/ Elapse

SpecLimiter == InitLimiter /\ [][NextLimiter]_vars

\* the grants of history g at the times from a up to, not including, b
GrantsIn(g, a, b) == { i \in 1..Len(g) : a <= g[i] /\ g[i] < b }

\* C29: in every window of window_seconds at most max_requests requests are
\* granted; acquire returns True, and records the request, only when fewer
\* than max_requests grants lie within the last window_seconds; a refused
\* acquire records nothing; wait_if_needed returns only after an acquire
\* has succeeded.
C29_WindowBound ==
    LET w == rate_limiter.window_seconds
        m == rate_limiter.max_requests
        recent == GrantsIn(audit.granted_before, audit.at - w + 1, audit.at + 1)
    IN  /\ \A t \in 0..MaxClock :
              Cardinality(GrantsIn(audit.granted, t, t + w)) <= m
        /\ (audit.op # None /\ audit.result) =>
              /\ Cardinality(recent) < m
              /\ audit.granted = Append(audit.granted_before, audit.at)
              /\ rate_limiter.requests # <<>>
              /\ rate_limiter.requests[Len(rate_limiter.requests)] = audit.at
        /\ (audit.op # None /\ ~audit.result) =>
              /\ Cardinality(recent) >= m
              /\ audit.granted = audit.granted_before
              /\ Len(rate_limiter.requests) <= Len(audit.before.requests)
              /\ \A i \in 1..Len(rate_limiter.requests) :
                    \E j \in 1..Len(audit.before.requests) :
                        rate_limiter.requests[i] = audit.before.requests[j]
        /\ retry.pc = "returned" =>
              /\ audit.op = "wait_if_needed"
              /\ audit.result
        /\ retry.pc = "sleep" => ~audit.result

\* wait_if_needed has returned after it slept: an earlier try was refused in
\* a full window and a later one granted once the window had moved on
C29_Witness ==
    /\ retry.pc = "returned"
    /\ retry.wake > 0
    /\ Len(audit.granted) > rate_limiter.max_requests
    /\ rate_limiter.max_requests > 1

\* =====================================================================
\* GeminiService._retry_with_backoff (services/gemini_service.py 147-174)
\* with the settings of GeminiConfig (config/gemini_config.py 27-31).
\* retry holds the locals of the call: attempt, last_exception, and, for
\* the record, the number of calls of func, their outcomes and the delays
\* slept.  An exception is kept as the attempt that raised it and its
\* message; a result as the attempt that returned it.
\* =====================================================================
MaxRetries == 3
MaxRuns == 2

RetryBaseDelay == 1
RetryExponentialBase == 2
RetryMaxDelay == 60

\* the configurations the service is constructed with: GeminiConfig with
\* MAX_RETRIES up to MaxRetries, and one whose RETRY_MAX_DELAY is as low as
\* the base delay
Configs ==
    [ MAX_RETRIES : 1..MaxRetries,
      RETRY_BASE_DELAY : {RetryBaseDelay},
      RETRY_EXPONENTIAL_BASE : {RetryExponentialBase},
      RETRY_MAX_DELAY : {RetryBaseDelay, RetryMaxDelay} ]

\* the terms of a non-retryable error (gemini_service.py 159-163)
NonRetryableTerms == {"invalid api key", "permission denied", "quota exceeded"}

\* the lower-cased messages of the exceptions func raises
Messages == NonRetryableTerms \cup {"deadline exceeded"}

Ok == "ok"

RECURSIVE Pow(_, _)
Pow(b, n) == IF n = 0 THEN 1 ELSE b * Pow(b, n - 1)

\* the delay without the cap of RETRY_MAX_DELAY
DelayUncapped(config, attempt) ==
    config.RETRY_BASE_DELAY * Pow(config.RETRY_EXPONENTIAL_BASE, attempt)

\* gemini_service.py 165-169
Delay(config, attempt) ==
    Min(config.RETRY_BASE_DELAY * Pow(config.RETRY_EXPONENTIAL_BASE, attempt),
        config.RETRY_MAX_DELAY)

\* a call of _retry_with_backoff begins (gemini_service.py 149-151)
RetryWithBackoff ==
    /\ retry.pc \in {"idle", "returned", "raised"}
    /\ retry.runs < MaxRuns
    /\ retry' = [retry EXCEPT !.pc = "wait_if_needed", !.attempt = 0,
                              !.calls = 0, !.slept = <<>>, !.outcomes = <<>>,
                              !.last_exception = None, !.result = None,
                              !.runs = @ + 1]
    /\ UNCHANGED <<cache, rate_limiter, clock, audit, ops, faults, session,
                   ledger, expertise>>

\* self.rate_limiter.wait_if_needed() (gemini_service.py 153): one pass of
\* its loop, which sleeps for SleepTime when the request is refused
Admit ==
    /\ retry.pc = "wait_if_needed"
    /\ LET r == acquire(rate_limiter, clock)
       IN  /\ rate_limiter' = r.self
           /\ IF r.result
              THEN /\ retry' = [retry EXCEPT !.pc = "call"]
                   /\ clock' = clock
              ELSE /\ clock' = clock + SleepTime
                   /\ retry' = retry
    /\ UNCHANGED <<cache, audit, ops, faults, session, ledger, expertise>>

\* func(*args, **kwargs) returns or raises (gemini_service.py 154-169)
Call(answer) ==
    /\ retry.pc = "call"
    /\ LET n == retry.calls + 1
           e == [attempt |-> retry.attempt, message |-> answer]
           called == [retry EXCEPT !.calls = n, !.outcomes = Append(@, answer)]
       IN  retry' =
             IF answer = Ok
             THEN [called EXCEPT !.pc = "returned",
                                 !.result = [attempt |-> retry.attempt]]
             ELSE IF answer \in NonRetryableTerms
             THEN [called EXCEPT !.pc = "raised", !.last_exception = e,
                                 !.result = e]
             ELSE IF retry.attempt < retry.config.MAX_RETRIES - 1
             THEN [called EXCEPT !.pc = "sleep", !.last_exception = e]
             ELSE [called EXCEPT !.pc = "raised", !.last_exception = e,
                                 !.result = e]
    /\ UNCHANGED <<cache, rate_limiter, clock, audit, ops, faults, session,
                   ledger, expertise>>

\* time.sleep(delay) and the next round of the loop (gemini_service.py 171)
Sleep ==
    /\ retry.pc = "sleep"
    /\ LET delay == Delay(retry.config, retry.attempt)
       IN  /\ clock' = clock + delay
           /\ retry' = [retry EXCEPT !.pc = "wait_if_needed",
                                     !.slept = Append(@, delay),
                                     !.attempt = @ + 1]
    /\ UNCHANGED <<cache, rate_limiter, audit, ops, faults, session, ledger,
                   expertise>>

InitRetry ==
    /\ SessionAtRest
    /\ LedgerAtRest
    /\ ExpertiseAtRest
    /\ ops = 0
    /\ faults = 0
    /\ cache = [cache |-> <<>>, timestamps |-> <<>>, max_size |-> 1, ttl_seconds |-> 1]
    /\ \E m \in 1..MaxRequests :
          rate_limiter = [requests |-> <<>>, max_requests |-> m,
                          window_seconds |-> WindowSeconds]
    /\ clock = 0
    /\ audit = NoAudit
    /\ \E config \in Configs :
          retry = [pc |-> "idle", attempt |-> 0, calls |-> 0, slept |-> <<>>,
                   last_exception |-> None, result |-> None, wake |-> 0,
                   outcomes |-> <<>>, config |-> config, runs |-> 0]

NextRetry ==
    \/ RetryWithBackoff
    \/ Admit
    \/ \E answer \in Messages \cup {Ok} : Call(answer)
    \/ Sleep

SpecRetry == InitRetry /\ [][NextRetry]_vars

Finished == retry.pc \in {"returned", "raised"}

\* C30: func is called at most MAX_RETRIES times; the result of the first
\* successful call is returned and func is not called again; the first
\* non-retryable error ends the call and is re-raised; after MAX_RETRIES
\* failed attempts the exception of the last attempt is raised; the wait
\* before retry n (from 0) is min(RETRY_BASE_DELAY * RETRY_EXPONENTIAL_BASE^n,
\* RETRY_MAX_DELAY), and no wait follows the last attempt.
C30_RetryBackoff ==
    LET c == retry.config
        o == retry.outcomes
        last == [attempt |-> Len(o) - 1, message |-> o[Len(o)]]
    IN  retry.runs > 0 =>
          /\ retry.calls = Len(o)
          /\ retry.calls <= c.MAX_RETRIES
          /\ \A i \in 1..(Len(o) - 1) :
                o[i] # Ok /\ o[i] \notin NonRetryableTerms
          /\ \A n \in 1..Len(retry.slept) :
                retry.slept[n] =
                   IF c.RETRY_BASE_DELAY * Pow(c.RETRY_EXPONENTIAL_BASE, n - 1)
                         <= c.RETRY_MAX_DELAY
                   THEN c.RETRY_BASE_DELAY * Pow(c.RETRY_EXPONENTIAL_BASE, n - 1)
                   ELSE c.RETRY_MAX_DELAY
          /\ retry.pc \in {"wait_if_needed", "call"} => Len(retry.slept) = Len(o)
          /\ retry.pc = "returned" =>
                /\ o[Len(o)] = Ok
                /\ retry.result = [attempt |-> Len(o) - 1]
          /\ retry.pc = "raised" =>
                /\ o[Len(o)] # Ok
                /\ o[Len(o)] \in NonRetryableTerms \/ Len(o) = c.MAX_RETRIES
                /\ retry.result = last
          /\ retry.pc = "sleep" =>
                /\ o[Len(o)] \notin NonRetryableTerms \cup {Ok}
                /\ Len(o) < c.MAX_RETRIES
          /\ Finished => Len(retry.slept) = Len(o) - 1

\* a call that gave up after MAX_RETRIES retryable failures, having slept
\* before each retry with the second delay cut to RETRY_MAX_DELAY
C30_Witness ==
    /\ retry.pc = "raised"
    /\ retry.calls = retry.config.MAX_RETRIES
    /\ retry.calls > 2
    /\ retry.result.attempt = retry.calls - 1
    /\ retry.result.message \notin NonRetryableTerms
    /\ retry.config.RETRY_MAX_DELAY = RetryBaseDelay
    /\ retry.slept = <<RetryBaseDelay, RetryBaseDelay>>


====
